---- MODULE Spec2Model ----
(***************************************************************************)
(* ember-cli-content-security-policy: the addon object of index.js.        *)
(*                                                                         *)
(* The addon is one object whose fields (_config, _configForTest,          *)
(* _policyString, _policyStringForTest, _needsFastBootSupport) are filled  *)
(* by the `config` hook, augmented by the `serverMiddleware` hook and read *)
(* by the request handler, the report handler, `contentFor` and            *)
(* `treeForFastBoot`.  Each hook is one action.                            *)
(*                                                                         *)
(* Representation.                                                         *)
(*  - A policy object is a sequence of [name, value] entries in insertion  *)
(*    order; every value is a sequence of tokens (report-uri holds the one *)
(*    URI).                                                                *)
(*  - A policy string is the sequence of its space separated words, with   *)
(*    the word ";" where the string has "; ".                              *)
(*  - A URL is the sequence of its characters.                             *)
(*  - null is NullConfig for a configuration and NullString for a string.  *)
(*  - The response headers are a set of [name, value] pairs.               *)
(*                                                                         *)
(* Environment.  The host (Ember CLI) owns `app`, `project` and the        *)
(* dev-server options.  A process either runs a CLI command (app is        *)
(* undefined, index.js:80, and no server or build hook runs) or a build or *)
(* serve (app is set before the hooks run, index.js:51-62).  The           *)
(* dev-server options are the command line of the process, the same at     *)
(* every start of the express server.                                      *)
(***************************************************************************)
EXTENDS Naturals, Sequences, FiniteSets, TLC

VARIABLES
    app,                    \* this.app: Undefined or [tests |-> BOOLEAN]
    project,                \* this.project: resolved configurations, dependencies
    options,                \* dev-server options of the process, NoOptions before the first start
    _config,                \* index.js:303
    _configForTest,         \* index.js:306
    _needsFastBootSupport,  \* index.js:310
    _policyString,          \* index.js:313
    _policyStringForTest,   \* index.js:316
    installed,              \* how many times serverMiddleware registered its handlers
    starts,                 \* how many times serverMiddleware was called
    last                    \* the last hook call or request: its inputs and its outcome

vars == <<app, project, options, _config, _configForTest, _needsFastBootSupport,
          _policyString, _policyStringForTest, installed, starts, last>>

addon == <<_config, _configForTest, _policyString, _policyStringForTest>>

(***************************************************************************)
(* Constants of index.js                                                   *)
(***************************************************************************)
REPORT_PATH == <<"/", "c", "s", "p", "-", "r", "e", "p", "o", "r", "t">>
CSP_HEADER == "Content-Security-Policy"
CSP_HEADER_REPORT_ONLY == "Content-Security-Policy-Report-Only"
CSP_REPORT_URI == "report-uri"
CSP_FRAME_ANCESTORS == "frame-ancestors"
CSP_SANDBOX == "sandbox"
META_UNSUPPORTED_DIRECTIVES == <<CSP_REPORT_URI, CSP_FRAME_ANCESTORS, CSP_SANDBOX>>
STATIC_TEST_NONCE == "abcdefg"
TESTS_PREFIX == <<"/", "t", "e", "s", "t", "s">>

NullConfig == [null |-> TRUE]
NullString == <<"null">>
Null == "null"
Undefined == [undefined |-> TRUE]
NoOptions == [unset |-> TRUE]
EmptyObject == [empty |-> TRUE]

(***************************************************************************)
(* Bound: how often the express server is (re)started in one process.      *)
(***************************************************************************)
MaxServerStarts == 3

(***************************************************************************)
(* Policy objects                                                          *)
(***************************************************************************)
Entry(n, v) == [name |-> n, value |-> v]

\* `name in policyObject`
hasDirective(policyObject, n) == \E i \in DOMAIN policyObject : policyObject[i].name = n

indexOfDirective(policyObject, n) ==
    CHOOSE i \in DOMAIN policyObject : policyObject[i].name = n

\* policyObject[name]; the empty list stands for undefined and is only read
\* where the code tests the value for truthiness first
getDirective(policyObject, n) ==
    IF hasDirective(policyObject, n)
    THEN policyObject[indexOfDirective(policyObject, n)].value
    ELSE <<>>

\* policyObject[name] = value: an existing key keeps its place, a new key goes last
setDirective(policyObject, n, v) ==
    IF hasDirective(policyObject, n)
    THEN [policyObject EXCEPT ![indexOfDirective(policyObject, n)] = Entry(n, v)]
    ELSE Append(policyObject, Entry(n, v))

includes(list, v) == \E i \in DOMAIN list : list[i] = v

RECURSIVE without(_, _)
without(list, v) ==
    IF list = <<>> THEN <<>>
    ELSE IF Head(list) = v THEN without(Tail(list), v)
    ELSE <<Head(list)>> \o without(Tail(list), v)

\* an append that neither evicts 'none' nor looks for the value in the list
appendSourceList_push(policyObject, n, v) ==
    setDirective(policyObject, n, Append(getDirective(policyObject, n), v))

\* lib/utils appendSourceList
appendSourceList(policyObject, n, v) ==
    IF ~hasDirective(policyObject, n) THEN setDirective(policyObject, n, <<v>>)
    ELSE LET old == getDirective(policyObject, n)
             others == without(old, "'none'")
         IN  IF includes(old, v) THEN policyObject
             ELSE IF v = "'none'" /\ others = <<>>
                  THEN setDirective(policyObject, n, Append(old, v))
                  ELSE setDirective(policyObject, n, Append(others, v))

RECURSIVE buildFragments(_)
buildFragments(policyObject) ==
    IF policyObject = <<>> THEN <<>>
    ELSE LET e == Head(policyObject)
             rest == buildFragments(Tail(policyObject))
         IN  IF e.value = <<>> THEN rest
             ELSE IF rest = <<>> THEN <<e.name>> \o e.value
             ELSE <<e.name>> \o e.value \o <<";">> \o rest

\* lib/utils buildPolicyString
buildPolicyString(policyObject) == buildFragments(policyObject)

\* index.js:30-34
unsupportedDirectives(policyObject) ==
    SelectSeq(META_UNSUPPORTED_DIRECTIVES, LAMBDA n : hasDirective(policyObject, n))

(***************************************************************************)
(* Inputs: what the host hands to the hooks                                *)
(***************************************************************************)
PolicyA == <<Entry("default-src", <<"'none'">>), Entry("script-src", <<"'self'">>),
             Entry("connect-src", <<"'self'">>)>>
PolicyB == <<Entry("script-src", <<"'self'", "'unsafe-inline'">>),
             Entry("connect-src", <<"'none'">>),
             Entry("frame-src", <<"https://frames.example">>)>>
PolicyC == <<Entry("default-src", <<"'self'">>)>>
PolicyD == <<Entry("default-src", <<"'none'">>), Entry("script-src", <<"'none'">>),
             Entry("report-uri", <<"https://report.example/csp">>)>>

ResolvedConfig(e, r, d, p) ==
    [enabled |-> e, reportOnly |-> r, delivery |-> d, failTests |-> TRUE, policy |-> p]

\* what calculateConfig can return for the build environment; of a disabled
\* configuration nothing but `enabled` is read
MainConfigs ==
    {ResolvedConfig(TRUE, r, {"header"}, p) : r \in BOOLEAN, p \in {PolicyA, PolicyB, PolicyD}}
    \cup {ResolvedConfig(TRUE, r, {"meta"}, PolicyA) : r \in BOOLEAN}
    \cup {ResolvedConfig(TRUE, TRUE, {"header", "meta"}, PolicyD)}
    \cup {ResolvedConfig(FALSE, TRUE, {"header", "meta"}, PolicyA)}

\* what calculateConfig can return for the test environment; index.js reads
\* only reportOnly and policy of it
TestConfigs ==
    {ResolvedConfig(TRUE, r, {"header"}, p) : r \in BOOLEAN, p \in {PolicyA, PolicyB, PolicyD}}
    \cup {ResolvedConfig(TRUE, FALSE, {"header"}, PolicyC)}

Apps == {Undefined} \cup [tests : BOOLEAN]

\* the test configuration is read only in a build that includes tests, the
\* ember-cli-fastboot dependency only by config and treeForFastBoot
Projects ==
    {p \in [main : MainConfigs, test : TestConfigs, fastboot : BOOLEAN] :
        p.fastboot => p.test = ResolvedConfig(TRUE, FALSE, {"header"}, PolicyA)}

Environments == {"development", "test"}

\* `ember serve` options; "" stands for an option that is not given
DevServerOptions ==
    {o \in [liveReload : BOOLEAN, liveReloadHost : {"", "lr.example"}, liveReloadPort : {7020},
            ssl : BOOLEAN, host : {"", "0.0.0.0"}, port : {4200}] :
        (o.liveReloadHost = "") = (o.host = "")}

UrlRoot == <<"/">>
UrlTests == <<"/", "t", "e", "s", "t", "s", "/", "i", "n", "d", "e", "x", ".", "h", "t", "m", "l">>
UrlTest == <<"/", "t", "e", "s", "t">>
UrlAsset == <<"/", "a", "s", "s", "e", "t", "s", "/", "t", "e", "s", "t", "s">>
PageUrls == {UrlRoot, UrlTests, UrlTest, UrlAsset}

UpstreamValue == <<"default-src", "*">>
PriorHeaders ==
    SUBSET {[name |-> CSP_HEADER, value |-> UpstreamValue],
            [name |-> CSP_HEADER_REPORT_ONLY, value |-> UpstreamValue]}

\* String.prototype.startsWith
startsWith(s, prefix) ==
    Len(s) >= Len(prefix) /\ SubSeq(s, 1, Len(prefix)) = prefix

(***************************************************************************)
(* config hook, index.js:67-124                                            *)
(***************************************************************************)
\* lib/utils readConfig and calculateConfig: the resolved configuration of
\* the project for an environment
calculateConfig(environment, proj) ==
    IF environment = "test" THEN proj.test ELSE proj.main

\* the nonce added whatever script-src holds
addTestNonce_always(policyObject) ==
    appendSourceList(policyObject, "script-src", "'nonce-" \o STATIC_TEST_NONCE \o "'")

\* index.js:86-92
addTestNonce(policyObject) ==
    LET scriptSrc == getDirective(policyObject, "script-src")
    IN  IF ~(hasDirective(policyObject, "script-src") /\ includes(scriptSrc, "'unsafe-inline'"))
        THEN appendSourceList(policyObject, "script-src", "'nonce-" \o STATIC_TEST_NONCE \o "'")
        ELSE policyObject

\* index.js:94-95
allowTestFrames(policyObject) ==
    setDirective(policyObject, "frame-src", <<"'self'">>)

\* index.js:82-97
calculateConfigForTest(proj) ==
    LET configForTest == calculateConfig("test", proj)
    IN  [configForTest EXCEPT !.policy = allowTestFrames(addTestNonce(configForTest.policy))]

\* FastBoot support that does not look at the delivery
needsFastBootSupport_anyDelivery(config, proj) == config.enabled /\ proj.fastboot

\* index.js:106-108
needsFastBootSupport(config, proj) ==
    config.enabled /\ ("header" \in config.delivery) /\ proj.fastboot

\* index.js:111-123
runTimeConfig(needed, policyString, config) ==
    IF ~needed THEN EmptyObject
    ELSE [policy |-> policyString, reportOnly |-> config.reportOnly]

\* a config hook that calculates on every call
notCalculated_always(config) == TRUE

\* index.js:70
notCalculated(config) == config = NullConfig

\* the first call of a process is the host's call for the environment of the
\* build; later calls come with any environment
Config ==
    \E environment \in Environments :
        LET first == notCalculated(_config)
            config == IF first THEN calculateConfig(environment, project) ELSE _config
            policyString == IF first THEN buildPolicyString(config.policy) ELSE _policyString
            withTests == first /\ app # Undefined /\ app.tests
            configForTest == IF withTests THEN calculateConfigForTest(project) ELSE _configForTest
            policyStringForTest == IF withTests THEN buildPolicyString(configForTest.policy)
                                   ELSE _policyStringForTest
            needed == needsFastBootSupport(config, project)
        IN  /\ _config' = config
            /\ _policyString' = policyString
            /\ _configForTest' = configForTest
            /\ _policyStringForTest' = policyStringForTest
            /\ _needsFastBootSupport' = IF needed THEN "true" ELSE "false"
            /\ _config = NullConfig => environment = "development"
            /\ last' = [op |-> "config", first |-> first, environment |-> environment,
                        before |-> addon,
                        returned |-> runTimeConfig(needed, policyString, config)]
            /\ UNCHANGED <<app, project, options, installed, starts>>

Init ==
    /\ app \in Apps
    /\ project \in Projects
    \* a project is drawn with a test configuration of its own (a build that
    \* includes tests) or with the ember-cli-fastboot dependency
    /\ (app # Undefined /\ app.tests) = ~project.fastboot
    /\ options = NoOptions
    /\ _config = NullConfig
    /\ _configForTest = NullConfig
    /\ _needsFastBootSupport = Null
    /\ _policyString = NullString
    /\ _policyStringForTest = NullString
    /\ installed = 0
    /\ starts = 0
    /\ last = [op |-> "init"]

(***************************************************************************)
(* serverMiddleware hook, index.js:126-212                                 *)
(***************************************************************************)
\* live reload sources pushed onto the lists, whatever the lists hold
RECURSIVE allowHostnames_push(_, _, _)
allowHostnames_push(policyObject, hostnames, liveReloadConfig) ==
    IF hostnames = <<>> THEN policyObject
    ELSE LET protocol == IF liveReloadConfig.ssl THEN "wss://" ELSE "ws://"
             host == Head(hostnames) \o ":" \o ToString(liveReloadConfig.port)
             withConnect == appendSourceList_push(policyObject, "connect-src", protocol \o host)
             withScript == appendSourceList_push(withConnect, "script-src", host)
         IN  allowHostnames_push(withScript, Tail(hostnames), liveReloadConfig)

\* index.js:40-45
RECURSIVE allowHostnames(_, _, _)
allowHostnames(policyObject, hostnames, liveReloadConfig) ==
    IF hostnames = <<>> THEN policyObject
    ELSE LET protocol == IF liveReloadConfig.ssl THEN "wss://" ELSE "ws://"
             host == Head(hostnames) \o ":" \o ToString(liveReloadConfig.port)
             withConnect == appendSourceList(policyObject, "connect-src", protocol \o host)
             withScript == appendSourceList(withConnect, "script-src", host)
         IN  allowHostnames(withScript, Tail(hostnames), liveReloadConfig)

\* the host given by --live-reload-host left out
liveReloadHostnames_fixed(hostname) == <<"localhost", "0.0.0.0">>

\* index.js:40: ['localhost', '0.0.0.0', hostname].filter(Boolean)
liveReloadHostnames(hostname) ==
    SelectSeq(<<"localhost", "0.0.0.0", hostname>>, LAMBDA h : h # "")

\* index.js:37-46
allowLiveReload(policyObject, liveReloadConfig) ==
    allowHostnames(policyObject, liveReloadHostnames(liveReloadConfig.hostname), liveReloadConfig)

liveReloadConfigOf(opts) ==
    [hostname |-> opts.liveReloadHost, port |-> opts.liveReloadPort, ssl |-> opts.ssl]

\* index.js:144-159, for one policy object
withLiveReload(policyObject, opts) ==
    IF opts.liveReload THEN allowLiveReload(policyObject, liveReloadConfigOf(opts))
    ELSE policyObject

\* an origin that is http:// whatever the ssl option says
ecOrigin_http(opts) ==
    "http://" \o (IF opts.host # "" THEN opts.host ELSE "localhost") \o ":" \o ToString(opts.port)

\* index.js:163-165
ecOrigin(opts) ==
    LET ecHost == IF opts.host # "" THEN opts.host ELSE "localhost"
        ecProtocol == IF opts.ssl THEN "https://" ELSE "http://"
    IN  ecProtocol \o ecHost \o ":" \o ToString(opts.port)

\* index.js:162: the guard of the report-uri injection
injectsReportUri(config, policyObject) ==
    config.reportOnly /\ ~hasDirective(policyObject, "report-uri")

\* the report origin pushed onto connect-src, whatever the list holds
withReportUri_push(policyObject, opts) ==
    setDirective(appendSourceList_push(policyObject, "connect-src", ecOrigin(opts)),
                 "report-uri", <<ecOrigin(opts) \o "/csp-report">>)

\* index.js:167-168
withReportUri(policyObject, opts) ==
    setDirective(appendSourceList(policyObject, "connect-src", ecOrigin(opts)),
                 "report-uri", <<ecOrigin(opts) \o "/csp-report">>)

\* index.js:171-172
withReportUriForTest(policyObjectForTest, policyObject, opts) ==
    setDirective(appendSourceList(policyObjectForTest, "connect-src", ecOrigin(opts)),
                 "report-uri", getDirective(policyObject, "report-uri"))

\* index.js:137-174: the main policy object after the hook
augmentedPolicy(config, opts) ==
    LET reloaded == withLiveReload(config.policy, opts)
    IN  IF injectsReportUri(config, reloaded) THEN withReportUri(reloaded, opts) ELSE reloaded

\* index.js:142-174: the test policy object after the hook
augmentedPolicyForTest(config, configForTest, opts) ==
    LET reloaded == withLiveReload(config.policy, opts)
        reloadedForTest == withLiveReload(configForTest.policy, opts)
    IN  IF injectsReportUri(config, reloaded)
        THEN withReportUriForTest(reloadedForTest, withReportUri(reloaded, opts), opts)
        ELSE reloadedForTest

\* a string built from the policy object as it was before the report-uri
\* was written to it
recalculatedPolicyString_early(policyObject) ==
    buildPolicyString(SelectSeq(policyObject, LAMBDA e : e.name # CSP_REPORT_URI))

\* index.js:176-180: the string is built after the last write to the object
recalculatedPolicyString(policyObject) == buildPolicyString(policyObject)

\* a disabled addon that registers its handlers all the same
disabled_never(config) == FALSE

\* index.js:130
disabled(config) == ~config.enabled

ServerMiddleware ==
    /\ _config # NullConfig
    /\ app # Undefined
    /\ starts < MaxServerStarts
    /\ \E opts \in DevServerOptions :
        /\ options \in {NoOptions, opts}
        /\ options' = opts
        /\ starts' = starts + 1
        /\ last' = [op |-> "serverMiddleware", before |-> addon, installedBefore |-> installed]
        /\ IF disabled(_config)
           THEN UNCHANGED <<_config, _configForTest, _policyString, _policyStringForTest,
                            installed>>
           ELSE LET policyObject == augmentedPolicy(_config, opts)
                IN  /\ _config' = [_config EXCEPT !.policy = policyObject]
                    /\ _policyString' = recalculatedPolicyString(policyObject)
                    /\ IF _configForTest # NullConfig
                       THEN LET policyObjectForTest ==
                                    augmentedPolicyForTest(_config, _configForTest, opts)
                            IN  /\ _configForTest' =
                                       [_configForTest EXCEPT !.policy = policyObjectForTest]
                                /\ _policyStringForTest' = recalculatedPolicyString(policyObjectForTest)
                       ELSE UNCHANGED <<_configForTest, _policyStringForTest>>
                    /\ installed' = installed + 1
    /\ UNCHANGED <<app, project, _needsFastBootSupport>>

(***************************************************************************)
(* The handlers serverMiddleware registers                                 *)
(***************************************************************************)
removeHeader(res, n) == [res EXCEPT !.headers = {h \in @ : h.name # n}]

setHeader(res, n, v) ==
    [res EXCEPT !.headers = {h \in @ : h.name # n} \cup {[name |-> n, value |-> v]}]

Self == [app |-> app, _config |-> _config, _configForTest |-> _configForTest,
         _policyString |-> _policyString, _policyStringForTest |-> _policyStringForTest]

\* the main policy for every path, also below /tests
isRequestForTests_never(self, req) == FALSE

\* index.js:186-187
isRequestForTests(self, req) ==
    startsWith(req.originalUrl, TESTS_PREFIX) /\ self.app.tests

\* the two header names swapped
headerName_swapped(config) ==
    IF config.reportOnly THEN CSP_HEADER ELSE CSP_HEADER_REPORT_ONLY

\* index.js:190
headerName(config) ==
    IF config.reportOnly THEN CSP_HEADER_REPORT_ONLY ELSE CSP_HEADER

\* only the header that is about to be set is cleared
requestHandler_clearsOwn(self, req, res) ==
    IF self.app = Undefined THEN [res |-> res, threw |-> TRUE]
    ELSE LET forTests == isRequestForTests(self, req)
             config == IF forTests THEN self._configForTest ELSE self._config
             policyString == IF forTests THEN self._policyStringForTest ELSE self._policyString
         IN  IF config = NullConfig THEN [res |-> res, threw |-> TRUE]
             ELSE [res |-> setHeader(res, headerName(config), policyString), threw |-> FALSE]

\* a handler that leaves a response alone that carries a CSP header already
requestHandler_keepsPrior(self, req, res) ==
    IF self.app = Undefined THEN [res |-> res, threw |-> TRUE]
    ELSE IF \E h \in res.headers : h.name \in {CSP_HEADER, CSP_HEADER_REPORT_ONLY}
    THEN [res |-> res, threw |-> FALSE]
    ELSE requestHandler_clearsOwn(self, req, res)

\* index.js:182-200; threw: a TypeError on `this.app.tests` or `config.reportOnly`
requestHandler(self, req, res) ==
    IF self.app = Undefined THEN [res |-> res, threw |-> TRUE]
    ELSE LET forTests == isRequestForTests(self, req)
             config == IF forTests THEN self._configForTest ELSE self._config
             policyString == IF forTests THEN self._policyStringForTest ELSE self._policyString
         IN  IF config = NullConfig THEN [res |-> res, threw |-> TRUE]
             ELSE [res |-> setHeader(removeHeader(removeHeader(res, CSP_HEADER),
                                                  CSP_HEADER_REPORT_ONLY),
                                     headerName(config), policyString),
                   threw |-> FALSE]

\* express: app.use(path, fn) runs fn for the path and everything below it
mounted(path, url) ==
    /\ startsWith(url, path)
    /\ Len(url) = Len(path) \/ url[Len(path) + 1] \in {"/", "?"}

\* index.js:204-205, body-parser's json(): a request of another content type
\* or without a body passes with req.body = {}; a body that is not JSON ends
\* the chain with a 400 error
bodyParserJson(type, st) ==
    IF st.req.parsed \/ st.req.body = "none" \/ st.req.contentType # type
    THEN [st EXCEPT !.req.parsedBody = IF st.req.parsed THEN @ ELSE "{}"]
    ELSE IF st.req.body = "invalid"
         THEN [st EXCEPT !.error = 400]
         ELSE [st EXCEPT !.req.parsed = TRUE, !.req.parsedBody = st.req.body]

\* index.js:206-211
reportHandler(st) ==
    [st EXCEPT !.logged = Append(@, st.req.parsedBody),
               !.res.statusCode = 204, !.res.body = "", !.ended = TRUE]

\* index.js:202-211: the three handlers mounted on REPORT_PATH; express skips
\* them once one has passed an error on
reportChain(st) ==
    LET first == bodyParserJson("application/csp-report", st)
        second == IF first.error # 0 THEN first ELSE bodyParserJson("application/json", first)
    IN  IF second.error # 0 THEN second ELSE reportHandler(second)

\* index.js:182-211: one registration of the handlers, in the order of app.use;
\* `handled` keeps the response as the request handler left it
registration(self, st) ==
    IF st.ended \/ st.error # 0 THEN st
    ELSE LET handled == requestHandler(self, st.req, st.res)
         IN  IF handled.threw THEN [st EXCEPT !.error = 500]
             ELSE LET next == [st EXCEPT !.res = handled.res, !.handled = handled.res]
                  IN  IF mounted(REPORT_PATH, st.req.originalUrl) THEN reportChain(next)
                      ELSE next

RECURSIVE registrations(_, _, _)
registrations(n, self, st) ==
    IF n = 0 THEN st ELSE registrations(n - 1, self, registration(self, st))

\* express: an error no handler took is answered by the default error handler
\* with the status of the error; everything else goes on to the host's handlers
dispatch(n, self, req, priorHeaders) ==
    LET st == registrations(n, self,
                  [req |-> req, error |-> 0, ended |-> FALSE, logged |-> <<>>,
                   res |-> [headers |-> priorHeaders, statusCode |-> 200, body |-> "unsent"],
                   handled |-> [headers |-> priorHeaders, statusCode |-> 200,
                                body |-> "unsent"]])
    IN  IF st.error # 0
        THEN [st EXCEPT !.res.statusCode = st.error, !.res.body = "error", !.ended = TRUE]
        ELSE st

PageRequests ==
    [originalUrl : PageUrls, method : {"GET"}, contentType : {""}, body : {"none"},
     parsed : {FALSE}, parsedBody : {"undefined"}]

ReportRequests ==
    [originalUrl : {REPORT_PATH}, method : {"POST"},
     contentType : {"application/csp-report", "application/json", "text/plain"},
     body : {"{}", "report", "invalid"}, parsed : {FALSE}, parsedBody : {"undefined"}]

Request ==
    /\ starts > 0
    /\ \E req \in PageRequests, prior \in PriorHeaders :
        /\ prior # {} => req.originalUrl \in {UrlRoot, UrlTests}
        /\ last' = [op |-> "request", req |-> req, prior |-> prior, before |-> addon,
                 out |-> dispatch(installed, Self, req, prior)]
    /\ UNCHANGED <<app, project, options, _config, _configForTest, _needsFastBootSupport,
                   _policyString, _policyStringForTest, installed, starts>>

Report ==
    /\ starts > 0
    /\ \E req \in ReportRequests :
        /\ req.body # "invalid" => req.contentType = "application/csp-report" \/ req.body = "report"
        /\ last' = [op |-> "report", req |-> req, prior |-> {}, before |-> addon,
                 out |-> dispatch(installed, Self, req, {})]
    /\ UNCHANGED <<app, project, options, _config, _configForTest, _needsFastBootSupport,
                   _policyString, _policyStringForTest, installed, starts>>

(***************************************************************************)
(* contentFor hook, index.js:214-286                                       *)
(***************************************************************************)
Nothing == [undefined |-> TRUE]

\* console-ui writeWarnLine(data, test): the line is written unless `test` is
\* truthy; the lines this call writes
writeWarnLine(data, test) == IF test THEN <<>> ELSE <<data>>

\* index.js:220-225
injectsMeta(self, type) ==
    (type = "head" /\ "meta" \in self._config.delivery) \/ type = "test-head"

\* index.js:234-241
reportOnlyWarning(self, config) ==
    IF self._config.reportOnly /\ "meta" \in self._config.delivery
    THEN writeWarnLine("report only mode is not supported by meta delivery", config.reportOnly)
    ELSE <<>>

\* the words of a policy string without the report-uri directive
RECURSIVE withoutReportUri(_)
withoutReportUri(policyString) ==
    IF policyString = <<>> THEN <<>>
    ELSE IF Head(policyString) = CSP_REPORT_URI
    THEN withoutReportUri(SubSeq(policyString, IF Len(policyString) > 2 THEN 4 ELSE 3,
                                 Len(policyString)))
    ELSE <<Head(policyString)>> \o withoutReportUri(Tail(policyString))

\* a meta element that is not given the report-uri
metaTag_withoutReportUri(policyString) ==
    [tag |-> "meta", httpEquiv |-> CSP_HEADER, content |-> withoutReportUri(policyString)]

\* index.js:249
metaTag(policyString) ==
    [tag |-> "meta", httpEquiv |-> CSP_HEADER, content |-> policyString]

\* index.js:278-285: the script Ember CLI inserts gets the nonce
withNonce(existingContent) ==
    [i \in DOMAIN existingContent |->
        IF existingContent[i] = "<script>Ember.assert(TESTS_FILE_LOADED)</script>"
        THEN "<script nonce>Ember.assert(TESTS_FILE_LOADED)</script>"
        ELSE existingContent[i]]

ContentForResult(returned, warned, logged, content, threw) ==
    [returned |-> returned, warned |-> warned, logged |-> logged,
     existingContent |-> content, threw |-> threw]

\* index.js:214-286; isTestIndex is isIndexHtmlForTesting(existingContent),
\* qunitOld is qunitDependency.exists() && qunitDependency.lt('2.9.2')
contentFor(self, type, existingContent, isTestIndex, qunitOld) ==
    IF ~self._config.enabled THEN ContentForResult(Nothing, <<>>, <<>>, existingContent, FALSE)
    ELSE IF injectsMeta(self, type)
    THEN IF type = "head" /\ isTestIndex
         THEN ContentForResult(Nothing, <<>>, <<>>, existingContent, FALSE)
         ELSE LET config == IF type = "head" THEN self._config ELSE self._configForTest
                  policyString == IF type = "head" THEN self._policyString
                                  ELSE self._policyStringForTest
              IN  IF config = NullConfig
                  THEN ContentForResult(Nothing, <<>>, <<>>, existingContent, TRUE)
                  ELSE ContentForResult(metaTag(policyString),
                                        reportOnlyWarning(self, config),
                                        unsupportedDirectives(config.policy),
                                        existingContent, FALSE)
    ELSE IF type = "test-body" /\ self._config.failTests
    THEN ContentForResult([tag |-> "script", nonce |-> STATIC_TEST_NONCE],
                          IF qunitOld THEN writeWarnLine("QUnit < 2.9.2", FALSE) ELSE <<>>,
                          <<>>, existingContent, FALSE)
    ELSE IF type = "test-body-footer"
    THEN ContentForResult(Nothing, <<>>, <<>>, withNonce(existingContent), FALSE)
    ELSE ContentForResult(Nothing, <<>>, <<>>, existingContent, FALSE)

ContentTypes == {"head", "test-head", "test-body", "test-body-footer", "body"}

ExistingContent == <<"<script>Ember.assert(TESTS_FILE_LOADED)</script>", "<script src>">>

\* the host asks for the slots of index.html in every build and for the
\* slots of tests/index.html in a build that includes tests
ContentFor ==
    /\ _config # NullConfig
    /\ app # Undefined
    /\ \E type \in ContentTypes, isTestIndex \in BOOLEAN, qunitOld \in BOOLEAN :
        /\ type \in {"test-head", "test-body", "test-body-footer"} => app.tests
        /\ isTestIndex => type = "head" /\ app.tests
        /\ qunitOld => type = "test-body"
        /\ last' = [op |-> "contentFor", type |-> type, isTestIndex |-> isTestIndex,
                    before |-> addon,
                    out |-> contentFor(Self, type, ExistingContent, isTestIndex, qunitOld)]
    /\ UNCHANGED <<app, project, options, _config, _configForTest, _needsFastBootSupport,
                   _policyString, _policyStringForTest, installed, starts>>

(***************************************************************************)
(* treeForFastBoot hook, index.js:292-300                                  *)
(***************************************************************************)
treeForFastBoot(needed, tree) ==
    IF needed = Null \/ needed = "false" THEN Null ELSE tree

TreeForFastBoot ==
    /\ last' = [op |-> "treeForFastBoot", before |-> addon,
                returned |-> treeForFastBoot(_needsFastBootSupport, "tree")]
    /\ UNCHANGED <<app, project, options, _config, _configForTest, _needsFastBootSupport,
                   _policyString, _policyStringForTest, installed, starts>>

Next ==
    \/ Config
    \/ ServerMiddleware
    \/ Request
    \/ Report
    \/ ContentFor
    \/ TreeForFastBoot

Spec == Init /\ [][Next]_vars

(***************************************************************************)
(* The same hooks in a process where the host binds `app` late.  The host  *)
(* creates the addon without `app` (index.js:57, 80) and sets this.app     *)
(* when it constructs the application of the build; a config call that     *)
(* comes before that, for instance from the command that reads the         *)
(* project's configuration, finds this.app undefined.  The express server  *)
(* starts after the build is set up, so serverMiddleware and the slots of  *)
(* the index files come after the binding, as in Spec.                     *)
(***************************************************************************)
\* the host sets this.app
Included ==
    /\ app = Undefined
    /\ \E tests \in BOOLEAN :
        /\ tests = ~project.fastboot
        /\ app' = [tests |-> tests]
    /\ last' = [op |-> "included", before |-> addon]
    /\ UNCHANGED <<project, options, _config, _configForTest, _needsFastBootSupport,
                   _policyString, _policyStringForTest, installed, starts>>

\* the binding of `app` does not look at the policies: one main policy, every
\* test configuration
LateProjects == {p \in Projects : p.main.policy = PolicyA}

LateInit ==
    /\ app = Undefined
    /\ project \in LateProjects
    /\ options = NoOptions
    /\ _config = NullConfig
    /\ _configForTest = NullConfig
    /\ _needsFastBootSupport = Null
    /\ _policyString = NullString
    /\ _policyStringForTest = NullString
    /\ installed = 0
    /\ starts = 0
    /\ last = [op |-> "init"]

LateNext ==
    \/ Included
    \/ Config
    \/ ServerMiddleware
    \/ Request
    \/ Report
    \/ ContentFor
    \/ TreeForFastBoot

SpecLateApp == LateInit /\ [][LateNext]_vars

(***************************************************************************)
(* Properties                                                              *)
(***************************************************************************)
CspHeaderNames == {CSP_HEADER, CSP_HEADER_REPORT_ONLY}

cspHeaders(res) == {h \in res.headers : h.name \in CspHeaderNames}

\* the request of `last` went through the handlers serverMiddleware registered
Handled == last.op \in {"request", "report"} /\ installed > 0

\* the variant the claims name for the request of `last`
ForTests == startsWith(last.req.originalUrl, TESTS_PREFIX) /\ app.tests

\* C1: after the request handler has run, the response carries exactly one of
\* the two CSP header names, whatever CSP headers it carried before.
C1_HeaderExclusivity ==
    Handled => Cardinality(cspHeaders(last.out.handled)) = 1

C1_Witness ==
    /\ Handled
    /\ last.op = "request"
    /\ {h.name : h \in last.prior} = CspHeaderNames
    /\ Cardinality(cspHeaders(last.out.handled)) = 1

\* C2: the header value is the cached test policy string when the path starts
\* with /tests and the build includes tests, the cached main policy string in
\* every other case.
C2_VariantSelection ==
    Handled =>
        /\ cspHeaders(last.out.handled) # {}
        /\ \A h \in cspHeaders(last.out.handled) :
               h.value = IF ForTests THEN _policyStringForTest ELSE _policyString

C2_Witness ==
    /\ Handled
    /\ last.req.originalUrl = UrlTests
    /\ app.tests
    /\ _policyStringForTest # _policyString
    /\ \E h \in cspHeaders(last.out.handled) : h.value = _policyStringForTest

\* C3: the header name is Content-Security-Policy-Report-Only when reportOnly
\* of the selected variant's configuration is true, Content-Security-Policy
\* when it is false.
C3_HeaderName ==
    Handled =>
        /\ cspHeaders(last.out.handled) # {}
        /\ \A h \in cspHeaders(last.out.handled) :
               h.name = IF (IF ForTests THEN _configForTest ELSE _config).reportOnly
                        THEN CSP_HEADER_REPORT_ONLY ELSE CSP_HEADER

C3_Witness ==
    /\ Handled
    /\ ForTests
    /\ _configForTest.reportOnly
    /\ ~_config.reportOnly
    /\ \E h \in cspHeaders(last.out.handled) : h.name = CSP_HEADER_REPORT_ONLY

\* C4: with enabled = false serverMiddleware registers no handler and leaves
\* the policy objects and the cached strings as they were, no request has a
\* CSP header set or removed or is answered by the report handler, and
\* contentFor returns nothing for every slot.
C4_DisabledTouchesNothing ==
    (_config # NullConfig /\ ~_config.enabled) =>
        /\ installed = 0
        /\ last.op = "serverMiddleware" => addon = last.before /\ last.installedBefore = 0
        /\ last.op \in {"request", "report"} =>
               /\ last.out.res.headers = last.prior
               /\ ~last.out.ended
               /\ last.out.logged = <<>>
               /\ addon = last.before
        /\ last.op = "contentFor" =>
               /\ last.out.returned = Nothing
               /\ last.out.warned = <<>>
               /\ last.out.existingContent = ExistingContent

C4_Witness ==
    /\ _config # NullConfig
    /\ ~_config.enabled
    /\ starts > 0
    /\ last.op = "request"
    /\ {h.name : h \in last.prior} = CspHeaderNames
    /\ last.out.res.headers = last.prior

\* C5: a request posted to /csp-report as application/csp-report or
\* application/json is answered with status 204 and an empty body, whatever
\* its body.
C5_ReportAlways204 ==
    (/\ Handled
     /\ last.op = "report"
     /\ last.req.contentType \in {"application/csp-report", "application/json"}) =>
        /\ last.out.res.statusCode = 204
        /\ last.out.res.body = ""

\* the policy objects before and after the serverMiddleware call of `last`:
\* the main one and, where a test configuration exists, the test one
PolicyPairs ==
    {[before |-> last.before[1].policy, after |-> _config.policy]}
    \cup (IF _configForTest # NullConfig
          THEN {[before |-> last.before[2].policy, after |-> _configForTest.policy]}
          ELSE {})

LiveReloadHosts ==
    {"localhost", "0.0.0.0"}
    \cup (IF options.liveReloadHost # "" THEN {options.liveReloadHost} ELSE {})

\* C6: after serverMiddleware with options.liveReload, connect-src of the main
\* policy and of the test policy holds ws://<hostname>:<liveReloadPort>
\* (wss:// with ssl) and script-src holds <hostname>:<liveReloadPort> for
\* localhost, 0.0.0.0 and options.liveReloadHost; without options.liveReload
\* no such source is added.
C6_LiveReloadSources ==
    (last.op = "serverMiddleware" /\ _config.enabled) =>
        LET port == ToString(options.liveReloadPort)
        IN  IF options.liveReload
            THEN \A p \in PolicyPairs, h \in LiveReloadHosts :
                    /\ includes(getDirective(p.after, "connect-src"),
                                (IF options.ssl THEN "wss://" ELSE "ws://") \o h \o ":" \o port)
                    /\ includes(getDirective(p.after, "script-src"), h \o ":" \o port)
            ELSE \A p \in PolicyPairs, h \in {"localhost", "0.0.0.0", "lr.example"} :
                    /\ \A protocol \in {"ws://", "wss://"} :
                          includes(getDirective(p.after, "connect-src"),
                                   protocol \o h \o ":" \o port)
                              => includes(getDirective(p.before, "connect-src"),
                                          protocol \o h \o ":" \o port)
                    /\ includes(getDirective(p.after, "script-src"), h \o ":" \o port)
                           => includes(getDirective(p.before, "script-src"), h \o ":" \o port)

C6_Witness ==
    /\ last.op = "serverMiddleware"
    /\ _config.enabled
    /\ options.liveReload
    /\ options.ssl
    /\ options.liveReloadHost = "lr.example"
    /\ _configForTest # NullConfig
    /\ ~includes(getDirective(last.before[2].policy, "connect-src"), "wss://lr.example:7020")
    /\ includes(getDirective(_configForTest.policy, "connect-src"), "wss://lr.example:7020")
    /\ includes(getDirective(_config.policy, "script-src"), "lr.example:7020")

\* C7: a policy object, main or test, that holds a report-uri directive before
\* a serverMiddleware call holds the same report-uri after it, and the report
\* origin is not appended to its connect-src.
C7_ReportUriKept ==
    (last.op = "serverMiddleware" /\ _config.enabled) =>
        \A p \in PolicyPairs :
            hasDirective(p.before, "report-uri") =>
                /\ getDirective(p.after, "report-uri") = getDirective(p.before, "report-uri")
                /\ \A protocol \in {"http://", "https://"}, h \in {"localhost", "0.0.0.0"} :
                      includes(getDirective(p.after, "connect-src"), protocol \o h \o ":4200")
                          => includes(getDirective(p.before, "connect-src"),
                                      protocol \o h \o ":4200")

\* C8: script-src of the test policy holds 'nonce-abcdefg' if and only if the
\* script-src resolved for the test environment does not hold 'unsafe-inline';
\* it never holds both.
C8_TestNonce ==
    _configForTest # NullConfig =>
        LET scriptSrc == getDirective(_configForTest.policy, "script-src")
        IN  /\ includes(scriptSrc, "'nonce-abcdefg'")
                <=> ~includes(getDirective(project.test.policy, "script-src"), "'unsafe-inline'")
            /\ ~(includes(scriptSrc, "'nonce-abcdefg'") /\ includes(scriptSrc, "'unsafe-inline'"))

C8_Witness ==
    /\ last.op = "config"
    /\ last.first
    /\ _configForTest # NullConfig
    /\ includes(getDirective(project.test.policy, "script-src"), "'unsafe-inline'")
    /\ includes(getDirective(_configForTest.policy, "script-src"), "'unsafe-inline'")
    /\ ~includes(getDirective(_configForTest.policy, "script-src"), "'nonce-abcdefg'")

\* C9: frame-src of the test policy holds 'self' and still holds every
\* frame-src source resolved for the test environment.
C9_FrameSrcAppended ==
    _configForTest # NullConfig =>
        LET frameSrc == getDirective(_configForTest.policy, "frame-src")
            resolved == getDirective(project.test.policy, "frame-src")
        IN  /\ includes(frameSrc, "'self'")
            /\ \A i \in DOMAIN resolved : includes(frameSrc, resolved[i])

\* C10: a meta tag contentFor returns has http-equiv Content-Security-Policy;
\* with reportOnly and 'meta' delivery in the main configuration contentFor
\* writes a warning and returns the meta tag with the policy all the same.
C10_MetaWarning ==
    (last.op = "contentFor" /\ _config.enabled) =>
        /\ (last.out.returned # Nothing /\ last.out.returned.tag = "meta")
               => last.out.returned.httpEquiv = "Content-Security-Policy"
        /\ (/\ _config.reportOnly
            /\ "meta" \in _config.delivery
            /\ last.type = "test-head" \/ (last.type = "head" /\ ~last.isTestIndex)) =>
               /\ ~last.out.threw
               /\ last.out.warned # <<>>
               /\ last.out.returned =
                      [tag |-> "meta", httpEquiv |-> "Content-Security-Policy",
                       content |-> IF last.type = "head" THEN _policyString
                                   ELSE _policyStringForTest]


\* contentFor of `last` returned the CSP meta element
MetaReturned ==
    /\ last.op = "contentFor"
    /\ last.type \in {"head", "test-head"}
    /\ last.out.returned # Nothing

\* C11: the content attribute of the meta element contentFor('head') or
\* contentFor('test-head') returns never contains a report-uri directive.
C11_MetaWithoutReportUri ==
    MetaReturned => ~includes(last.out.returned.content, CSP_REPORT_URI)


\* the addon is enabled, delivers through the header and the project depends
\* on ember-cli-fastboot
FastBootCase ==
    /\ _config # NullConfig
    /\ _config.enabled
    /\ "header" \in _config.delivery
    /\ project.fastboot

\* C12: every config call returns {policy: the cached main policy string,
\* reportOnly: reportOnly of the main configuration} if and only if the addon
\* is enabled, delivers through the header and the project depends on
\* ember-cli-fastboot, and the empty object in every other case;
\* treeForFastBoot returns null in exactly those other cases.
C12_RunTimeConfig ==
    /\ last.op = "config" =>
           last.returned = IF FastBootCase
                           THEN [policy |-> _policyString, reportOnly |-> _config.reportOnly]
                           ELSE EmptyObject
    /\ last.op = "treeForFastBoot" => ((last.returned = Null) = ~FastBootCase)

C12_Witness ==
    /\ last.op = "config"
    /\ ~last.first
    /\ starts > 0
    /\ FastBootCase
    /\ _policyString # buildPolicyString(project.main.policy)
    /\ last.returned = [policy |-> _policyString, reportOnly |-> TRUE]


\* a source list with pairwise distinct values that holds 'none' only alone
sourceListOk(list) ==
    /\ \A i, j \in DOMAIN list : i # j => list[i] # list[j]
    /\ includes(list, "'none'") => Len(list) = 1

policyOk(policyObject) == \A i \in DOMAIN policyObject : sourceListOk(policyObject[i].value)

\* C13: whatever config and serverMiddleware calls have run, with whatever
\* dev-server options, every source list of the main and of the test policy
\* object has pairwise distinct values and does not hold 'none' together with
\* another value.
C13_SourceLists ==
    /\ _config # NullConfig => policyOk(_config.policy)
    /\ _configForTest # NullConfig => policyOk(_configForTest.policy)

\* live reload and the report origin were added twice to a connect-src that
\* was ['none'], the nonce to a script-src that was ['none']
C13_Witness ==
    /\ starts = MaxServerStarts
    /\ installed = MaxServerStarts
    /\ options # NoOptions
    /\ options.liveReload
    /\ _config.reportOnly
    /\ project.main.policy = PolicyB
    /\ project.test.policy = PolicyD
    /\ _configForTest # NullConfig
    /\ Len(getDirective(_config.policy, "connect-src")) > 2
    /\ ~includes(getDirective(_config.policy, "connect-src"), "'none'")
    /\ ~includes(getDirective(_configForTest.policy, "script-src"), "'none'")


\* `last` is a call of serverMiddleware that was not the first of the process
LaterServerMiddleware == last.op = "serverMiddleware" /\ starts > 1

\* C14: a second or later call of serverMiddleware with the same dev-server
\* options leaves both policy objects and both cached policy strings as the
\* first call left them.
C14_SecondCallNoOp ==
    LaterServerMiddleware => addon = last.before

C14_Witness ==
    /\ LaterServerMiddleware
    /\ installed > 1
    /\ options.liveReload
    /\ _config.reportOnly
    /\ _configForTest # NullConfig
    /\ _config.policy # project.main.policy
    /\ addon = last.before


\* the policy string built from the policy object of a configuration
freshString(config) == buildPolicyString(config.policy)

\* C15: after the first config call, at every hook boundary, the cached main
\* policy string is buildPolicyString of the main policy object and, when a
\* test configuration exists, the cached test policy string is
\* buildPolicyString of the test policy object; the header value, the meta
\* content and the run-time payload are such strings.
C15_StringsFresh ==
    /\ _config # NullConfig => _policyString = freshString(_config)
    /\ _configForTest # NullConfig => _policyStringForTest = freshString(_configForTest)
    /\ Handled => \A h \in cspHeaders(last.out.handled) :
           h.value = freshString(IF ForTests THEN _configForTest ELSE _config)
    /\ MetaReturned =>
           last.out.returned.content =
               freshString(IF last.type = "head" THEN _config ELSE _configForTest)
    /\ (last.op = "config" /\ last.returned # EmptyObject) =>
           last.returned.policy = freshString(_config)

\* the report-uri was injected into both policy objects and a later request
\* for the tests got the string with it
C15_Witness ==
    /\ Handled
    /\ last.op = "request"
    /\ ForTests
    /\ _config.policy # project.main.policy
    /\ ~hasDirective(project.main.policy, CSP_REPORT_URI)
    /\ hasDirective(_configForTest.policy, CSP_REPORT_URI)
    /\ \E h \in cspHeaders(last.out.handled) :
           h.value = freshString(_configForTest) /\ includes(h.value, CSP_REPORT_URI)


\* how often index.js:176 has built the main policy string again: once in
\* every serverMiddleware call that gets past index.js:130-132
recomputations == installed

\* C16 as stated: after its computation in config the cached policy string is
\* built again at most twice in the life of a process.
C16_RecomputedAtMostTwice == recomputations <= 2

\* the cached strings as they were before the call of `last`
stringsBefore == <<last.before[3], last.before[4]>>

\* C16: after their computation in the first config call the cached policy
\* strings change value only in the first serverMiddleware call of the
\* process; every later serverMiddleware call builds them again to the same
\* value, and no other hook call or request writes them.
C16_ChangesOnlyOnce ==
    (last.op # "init" /\ <<_policyString, _policyStringForTest>> # stringsBefore) =>
        \/ last.op = "config" /\ last.before[1] = NullConfig
        \/ last.op = "serverMiddleware" /\ starts = 1

C16_Witness ==
    /\ last.op = "serverMiddleware"
    /\ recomputations = 3
    /\ options.liveReload
    /\ _policyString # buildPolicyString(project.main.policy)
    /\ <<_policyString, _policyStringForTest>> = stringsBefore


\* the CSP headers a plain GET of the path gets from the addon as it is now
headersFor(url) ==
    cspHeaders(dispatch(installed, Self,
                        [originalUrl |-> url, method |-> "GET", contentType |-> "",
                         body |-> "none", parsed |-> FALSE, parsedBody |-> "undefined"],
                        {}).handled)

\* C17: handling a request leaves both resolved configurations, their policy
\* objects and both cached policy strings as they were, and the header name
\* and value a request gets depend on its path only: they are those of any
\* other request for the same path, whatever was handled before.
C17_RequestFrame ==
    /\ last.op \in {"request", "report"} => addon = last.before
    /\ Handled => cspHeaders(last.out.handled) = headersFor(last.req.originalUrl)

C17_Witness ==
    /\ Handled
    /\ last.op = "request"
    /\ last.req.originalUrl = UrlTests
    /\ last.prior # {}
    /\ installed > 1
    /\ _configForTest # NullConfig
    /\ _policyStringForTest # _policyString
    /\ addon = last.before
    /\ cspHeaders(last.out.handled) = headersFor(UrlTests)


\* `last` is a config call of an addon that held its configuration already
LaterConfig == last.op = "config" /\ last.before[1] # NullConfig

\* C18: a config call after the first, whatever its environment, leaves both
\* resolved configurations, their policy objects and both cached policy
\* strings as they were and does not run calculateConfig.
C18_ConfigOnce ==
    LaterConfig => addon = last.before /\ ~last.first

\* a later call for another environment, after serverMiddleware has augmented
\* the policies
C18_Witness ==
    /\ LaterConfig
    /\ last.environment = "test"
    /\ starts > 0
    /\ _configForTest # NullConfig
    /\ _config.policy # project.main.policy
    /\ _config # project.test
    /\ addon = last.before


\* the path of a request the meta element of a slot is compared with
pathOfSlot(type) == IF type = "head" THEN UrlRoot ELSE UrlTests

Augmented == last.op = "serverMiddleware" /\ installed > last.installedBefore

\* the origin of the development server, from the dev-server options
serverOrigin ==
    (IF options.ssl THEN "https" ELSE "http") \o "://"
        \o (IF options.host = "" THEN "localhost" ELSE options.host)
        \o ":" \o ToString(options.port)

reportUriOf(config) == getDirective(config.policy, CSP_REPORT_URI)

\* C20: a serverMiddleware call that finds the main configuration in
\* report-only mode and the main policy without report-uri leaves the main
\* policy with report-uri <origin of the development server>/csp-report and
\* with that origin in connect-src, and a test policy with the same report-uri
\* and the origin in its connect-src; a call that finds the main
\* configuration not in report-only mode adds no report-uri to either policy.
C20_ReportUriInjected ==
    Augmented =>
        /\ (last.before[1].reportOnly /\ ~hasDirective(last.before[1].policy, CSP_REPORT_URI)) =>
               /\ reportUriOf(_config) = <<serverOrigin \o "/csp-report">>
               /\ includes(getDirective(_config.policy, "connect-src"), serverOrigin)
               /\ _configForTest # NullConfig =>
                      /\ reportUriOf(_configForTest) = reportUriOf(_config)
                      /\ includes(getDirective(_configForTest.policy, "connect-src"),
                                  serverOrigin)
        /\ ~last.before[1].reportOnly =>
               /\ reportUriOf(_config) = reportUriOf(last.before[1])
               /\ _configForTest # NullConfig =>
                      reportUriOf(_configForTest) = reportUriOf(last.before[2])

C20_Witness ==
    /\ Augmented
    /\ last.before[1].reportOnly
    /\ ~hasDirective(last.before[1].policy, CSP_REPORT_URI)
    /\ options.ssl
    /\ options.host = "0.0.0.0"
    /\ _configForTest # NullConfig
    /\ ~hasDirective(last.before[2].policy, CSP_REPORT_URI)
    /\ reportUriOf(_config) = <<"https://0.0.0.0:4200/csp-report">>
    /\ reportUriOf(_configForTest) = <<"https://0.0.0.0:4200/csp-report">>
    /\ includes(getDirective(_configForTest.policy, "connect-src"), "https://0.0.0.0:4200")


\* the request handler or contentFor('test-head') of `last` took the test variant
TestVariantSelected ==
    \/ Handled /\ app # Undefined /\ ForTests
    \/ last.op = "contentFor" /\ last.type = "test-head" /\ _config.enabled

\* C21: a test configuration exists only when the build includes tests, and
\* whenever the request handler or contentFor('test-head') takes the test
\* variant, the test configuration and the cached test policy string are not
\* null, whether the first config call came with or without this.app.
C21_TestVariantDefined ==
    /\ _configForTest # NullConfig => app # Undefined /\ app.tests
    /\ TestVariantSelected =>
           _configForTest # NullConfig /\ _policyStringForTest # NullString


\* C22: whenever the request handler sends the
\* Content-Security-Policy-Report-Only header, for the main or for the test
\* variant, the policy string it sends holds a report-uri directive.
C22_ReportOnlyHasReportUri ==
    Handled =>
        \A h \in cspHeaders(last.out.handled) :
            h.name = CSP_HEADER_REPORT_ONLY => includes(h.value, CSP_REPORT_URI)

====
